---- MODULE Spec2Model ----
(***************************************************************************)
(* A model of the Gadgetbridge input plugin (src/gadgetbridge/plugin.go):  *)
(* the Plugin value with its watermark map p.state.LastTableTimes, the     *)
(* SQLite files it reads, the accumulator it emits to, and the host that   *)
(* calls Init, Gather, GetState and SetState.                              *)
(*                                                                         *)
(* Go maps are reference values, so the watermark maps live in a small     *)
(* heap and the plugin and the host hold addresses into it.                *)
(***************************************************************************)
EXTENDS Integers, Sequences, FiniteSets, TLC

\* ------------------------------------------------------------------ bounds

\* Timestamps (and the other integer cells) of a row range over 1..MaxTs.
MaxTs == 2

\* The total number of rows ever appended to all files together.
MaxRows == 2

\* The failures (of an open, a table or a close) in one Gather call.
MaxFails == 2

\* History counts how often a row was handed over up to this number.
MaxHanded == 2

\* ------------------------------------------------------------ the catalog

HR == "HYBRID_HRACTIVITY_SAMPLE"

BAT == "BATTERY_LEVEL"

\* knownTables, plugin.go:85-102.
knownTables ==
    << [Name |-> HR,
        Columns |-> [Timestamp |-> "TIMESTAMP",
                     Tags |-> <<"USER_ID", "DEVICE_ID">>,
                     Fields |-> <<"WEAR_TYPE", "STEPS", "CALORIES", "VARIABILITY",
                                  "MAX_VARIABILITY", "HEARTRATE_QUALITY", "ACTIVE",
                                  "HEART_RATE">>]],
       [Name |-> BAT,
        Columns |-> [Timestamp |-> "TIMESTAMP",
                     Tags |-> <<"DEVICE_ID", "BATTERY_INDEX">>,
                     Fields |-> <<"LEVEL">>]] >>

\* The columns each table of a Gadgetbridge export has (the columns the
\* built-in descriptors select).
Schema(name) ==
    IF name = HR
    THEN {"TIMESTAMP", "USER_ID", "DEVICE_ID", "WEAR_TYPE", "STEPS", "CALORIES",
          "VARIABILITY", "MAX_VARIABILITY", "HEARTRATE_QUALITY", "ACTIVE", "HEART_RATE"}
    ELSE IF name = BAT
    THEN {"TIMESTAMP", "DEVICE_ID", "BATTERY_INDEX", "LEVEL"}
    ELSE IF name = "USER_TABLE"
    THEN {"TIMESTAMP", "DATABASE_PATH", "VALUE"}
    ELSE {}

\* The table names a file holds.
DbTables == {HR, BAT}

\* A table of the user's own that a file may hold besides, read only through a
\* descriptor of extra_tables.
UT == "USER_TABLE"

AllTables == DbTables \cup {UT}

\* extra_tables of the configuration (Plugin.ExtraTables, plugin.go:36): none,
\* a descriptor repeating a built-in, and a descriptor of the same name that
\* takes another integer column as its timestamp.
ExtraSame ==
    [Name |-> BAT,
     Columns |-> [Timestamp |-> "TIMESTAMP", Tags |-> <<"DEVICE_ID">>,
                  Fields |-> <<"LEVEL">>]]

ExtraAlt ==
    [Name |-> BAT,
     Columns |-> [Timestamp |-> "LEVEL", Tags |-> <<"DEVICE_ID">>,
                  Fields |-> << >>]]

\* A descriptor of the user's table whose tag column lower-cases to
\* "database_path", and a descriptor whose timestamp column is left empty.
ExtraTagged ==
    [Name |-> UT,
     Columns |-> [Timestamp |-> "TIMESTAMP", Tags |-> <<"DATABASE_PATH">>,
                  Fields |-> <<"VALUE">>]]

ExtraEmpty ==
    [Name |-> BAT,
     Columns |-> [Timestamp |-> "", Tags |-> <<"DEVICE_ID">>,
                  Fields |-> <<"LEVEL">>]]

ExtraChoices == { << >>, <<ExtraSame>>, <<ExtraAlt>> }

\* database_paths of the configuration (Plugin.DatabasePaths, plugin.go:35).
PathA == "/data/a.db"

PathB == "/data/b.db"

PathChoices == { <<PathA>>, <<PathA, PathB>> }

Paths == {PathA, PathB}

\* ------------------------------------------------------------- Go values

\* strings.ToLower on the identifiers of the model (plugin.go:200,205,208).
ToLower(s) ==
    CASE s = "HYBRID_HRACTIVITY_SAMPLE" -> "hybrid_hractivity_sample"
      [] s = "BATTERY_LEVEL" -> "battery_level"
      [] s = "TIMESTAMP" -> "timestamp"
      [] s = "USER_ID" -> "user_id"
      [] s = "DEVICE_ID" -> "device_id"
      [] s = "BATTERY_INDEX" -> "battery_index"
      [] s = "LEVEL" -> "level"
      [] s = "WEAR_TYPE" -> "wear_type"
      [] s = "STEPS" -> "steps"
      [] s = "CALORIES" -> "calories"
      [] s = "VARIABILITY" -> "variability"
      [] s = "MAX_VARIABILITY" -> "max_variability"
      [] s = "HEARTRATE_QUALITY" -> "heartrate_quality"
      [] s = "ACTIVE" -> "active"
      [] s = "HEART_RATE" -> "heart_rate"
      [] s = "USER_TABLE" -> "user_table"
      [] s = "DATABASE_PATH" -> "database_path"
      [] s = "VALUE" -> "value"
      [] OTHER -> s

\* A Go map[string]int64 as a function on the set of its keys.
EmptyMap == << >>

MapHas(m, k) == k \in DOMAIN m

MapSet(m, k, v) == [x \in (DOMAIN m) \cup {k} |-> IF x = k THEN v ELSE m[x]]

MapDelete(m, k) == [x \in (DOMAIN m) \ {k} |-> m[x]]

\* The addresses of the heap; NilRef is the nil map.
Addrs == {"m1", "m2"}

NilRef == "nil"

\* interface{} values handed to SetState (plugin.go:248-257): the untyped nil,
\* a pluginState, and values of any other type.
NilValue == [type |-> "nil"]

StateValue(ref) == [type |-> "pluginState", LastTableTimes |-> ref]

InvalidValues == { [type |-> "string"], [type |-> "*pluginState"] }

\* What the host holds before the first GetState.
NoValue == [type |-> "none"]

Threads == {"t1", "t2"}

VARIABLES
    DatabasePaths,   \* Plugin.DatabasePaths
    ExtraTables,     \* Plugin.ExtraTables
    db,              \* the files: path -> table name -> rows in insertion order
    heap,            \* address -> map[string]int64
    stateRef,        \* p.state.LastTableTimes: an address or NilRef
    inited,          \* Init has been called on this Plugin value
    mu,              \* p.mu: "free" or the thread holding it
    th,              \* per goroutine calling Gather: its position and locals
    sink,            \* the accumulator: the points added in the running (or last) cycle
    held,            \* the state value the host keeps (the last GetState result)
    ret,             \* what the call that ended with the last step returned
    crashed,         \* the process died of a run-time panic
    handed,          \* history: row -> how often it was handed to the accumulator
    log,             \* history: the opens, scans and closes of the running (or last) cycle
    hist             \* history: what the host has done so far

vars == << DatabasePaths, ExtraTables, db, heap, stateRef, inited, mu, th, sink,
           held, ret, crashed, handed, log, hist >>

cfgVars == << DatabasePaths, ExtraTables >>

histVars == << handed, log, hist >>


\* ------------------------------------------------------------- the files

\* A row: its TIMESTAMP cell and, in BATTERY_LEVEL, its LEVEL cell. Every other
\* cell holds the integer 0.
Cell(row, col) ==
    IF col = "TIMESTAMP" THEN row.ts
    ELSE IF col = "LEVEL" THEN row.level
    ELSE 0

\* The rows that may be appended to a table. LEVEL varies where a descriptor
\* orders by it; HYBRID_HRACTIVITY_SAMPLE has no such column.
RowsFor(name) ==
    IF name = BAT
    THEN { [ts |-> a, level |-> b] : a \in 1..MaxTs,
                                    b \in IF ExtraTables = <<ExtraAlt>> THEN 1..MaxTs ELSE {1} }
    ELSE { [ts |-> a, level |-> 0] : a \in 1..MaxTs }

\* A row is named by its file, its table and its position in the table.
RowIds == { <<p, n, x>> : p \in Paths, n \in AllTables, x \in 1..MaxRows }

RowCount ==
    LET F[S \in SUBSET (Paths \X AllTables)] ==
            IF S = {} THEN 0
            ELSE LET e == CHOOSE e \in S : TRUE
                 IN Len(db[e[1]][e[2]]) + F[S \ {e}]
    IN F[Paths \X AllTables]

\* database/sql converting an integer cell into a *string destination
\* (plugin.go:189,199): its decimal text.
TextOf(n) ==
    CASE n = 0 -> "0" [] n = 1 -> "1" [] n = 2 -> "2" [] n = 3 -> "3"
      [] n = 4 -> "4" [] n = 5 -> "5" [] OTHER -> "big"

\* time.Unix(ts, 0), plugin.go:208.
TimeUnix(sec, nsec) == [sec |-> sec, nsec |-> nsec]

\* ------------------------------------------------------------- the plugin

\* slices.Concat(knownTables, p.ExtraTables), plugin.go:139.
CatalogExtrasFirst == ExtraTables \o knownTables

Catalog == knownTables \o ExtraTables

CatalogNames == { Catalog[c].Name : c \in 1..Len(Catalog) }

\* Reading p.state.LastTableTimes: a nil map reads as a map without entries.
LiveMap == IF stateRef = NilRef THEN EmptyMap ELSE heap[stateRef]

HeldMap ==
    IF held.type = "pluginState" /\ held.LastTableTimes # NilRef
    THEN heap[held.LastTableTimes]
    ELSE EmptyMap

Aliased ==
    /\ held.type = "pluginState"
    /\ held.LastTableTimes # NilRef
    /\ held.LastTableTimes = stateRef

\* An address no reference in `used` points to.
FreshAddr(used) == CHOOSE a \in Addrs : a \notin used

HeldRefs == IF held.type = "pluginState" THEN {held.LastTableTimes} ELSE {}

\* The heap with the maps nothing refers to dropped (garbage collection).
Collect(h, refs) == [a \in Addrs |-> IF a \in refs THEN h[a] ELSE EmptyMap]

NilErr == [err |-> "nil"]

\* A Gather that returns the last error alone.
JoinLast(errs) ==
    IF Len(errs) = 0 THEN NilErr ELSE [err |-> "joined", causes |-> <<errs[Len(errs)]>>]

\* errors.Join(errs...), plugin.go:150: nil when there is nothing to join.
Join(errs) == IF Len(errs) = 0 THEN NilErr ELSE [err |-> "joined", causes |-> errs]

IdleThread ==
    [pc |-> "idle", i |-> 0, j |-> 0, res |-> {}, errs |-> << >>, conn |-> "none"]

\* A Gather that goes on without the mutex.
LockAnyway(t) == mu' = t

\* p.mu.Lock(), plugin.go:127,236,245: blocks until the mutex is free.
Lock(t) == mu = "free" /\ mu' = t

\* p.mu.Unlock(), deferred.
Unlock(t) == mu' = "free"

\* The mutex is free for a call that takes and releases it within one step.
LockFree == mu = "free"

Running == ~crashed

\* ---------------------------------------------------------------- history

\* What the claims need to know of the past. None of it is read by the plugin.
\*   wmStart         the watermark map when the running cycle began
\*   scope           "pure": since the process started there were only Init,
\*                   GetState, appended rows and Gather calls that returned nil;
\*                   "kept": every cycle ran on the watermarks the cycle before
\*                   it left, kept in the plugin or exported after that cycle and
\*                   restored after a restart; "lost": neither
\*   restorePending  the process was restarted and no exported state restored yet
\*   heldFresh       the host's state value was exported after the last cycle
\*                   and not written to since
\*   restored        an exported state was restored after a restart
\*   phase, c1ok, cap   the resume scenario: a cycle from the empty state ("c1"),
\*                   its end ("c1done", c1ok: it returned nil), GetState
\*                   ("captured", cap: the exported map), SetState of that
\*                   value ("restored"), the second cycle ("c2")
HistInit ==
    [ wmStart |-> EmptyMap, scope |-> "pure", restorePending |-> FALSE,
      heldFresh |-> FALSE, restored |-> FALSE, phase |-> "off", c1ok |-> FALSE,
      cap |-> EmptyMap ]

\* History that no longer matters is forgotten.
Tidy(h) ==
    LET g == IF h.scope = "lost"
             THEN [h EXCEPT !.restorePending = FALSE, !.heldFresh = FALSE,
                            !.restored = FALSE, !.phase = "off"]
             ELSE h
    IN IF g.phase \in {"off", "c1"}
       THEN [g EXCEPT !.cap = EmptyMap, !.c1ok = FALSE]
       ELSE g

Kept(scope) == IF scope = "pure" THEN "kept" ELSE scope

LiveIsEmpty == stateRef # NilRef /\ LiveMap = EmptyMap

HistOn(ev, ok) ==
    hist' = Tidy(
      CASE ev = "begin" ->
             [hist EXCEPT !.wmStart = LiveMap,
                          !.heldFresh = FALSE,
                          !.scope = IF hist.restorePending THEN "lost" ELSE @,
                          !.phase = IF @ = "restored" THEN "c2"
                                    ELSE IF LiveIsEmpty THEN "c1"
                                    ELSE "off"]
        [] ev = "join" ->
             [hist EXCEPT !.scope = IF ok THEN @ ELSE Kept(@),
                          !.c1ok = IF hist.phase = "c1" THEN ok ELSE @,
                          !.phase = IF @ = "c1" THEN "c1done" ELSE @]
        [] ev = "return" ->
             [hist EXCEPT !.wmStart = EmptyMap,
                          !.phase = IF @ = "c2" THEN "off" ELSE @]
        [] ev = "crash" ->
             [hist EXCEPT !.scope = Kept(@), !.phase = "off"]
        [] ev = "getstate" ->
             [hist EXCEPT !.heldFresh = ~hist.restorePending,
                          !.cap = IF hist.phase = "c1done" THEN LiveMap ELSE @,
                          !.phase = IF @ = "c1done" THEN "captured"
                                    ELSE IF @ \in {"captured", "restored"}
                                            /\ stateRef # NilRef /\ LiveMap = hist.cap
                                    THEN @ ELSE "off"]
        [] ev = "setvalue" ->
             [hist EXCEPT !.scope = IF hist.heldFresh THEN Kept(@) ELSE "lost",
                          !.restorePending = FALSE,
                          !.restored = @ \/ hist.restorePending,
                          !.phase = IF @ \in {"captured", "restored"} THEN "restored"
                                    ELSE "off"]
        [] ev = "setnil" ->
             [hist EXCEPT !.scope = IF LiveIsEmpty THEN @ ELSE "lost",
                          !.phase = IF @ = "captured" THEN @ ELSE "off"]
        [] ev = "append" ->
             [hist EXCEPT !.phase = "off"]
        [] ev = "write" ->
             [hist EXCEPT !.heldFresh = FALSE,
                          !.scope = IF Aliased THEN "lost" ELSE @,
                          !.phase = IF @ \in {"captured", "restored"} THEN "off" ELSE @]
        [] ev = "restart" ->
             [hist EXCEPT !.wmStart = EmptyMap,
                          !.scope = Kept(@),
                          !.restorePending = TRUE,
                          !.phase = IF @ = "captured" THEN @ ELSE "off"]
        [] OTHER -> hist )

\* --- SetState, plugin.go:244-260

\* arg is history: what SetState was handed.
NoRet == [op |-> "none", err |-> NilErr, arg |-> "none"]

NoteCall(op, err) == ret' = [op |-> op, err |-> err, arg |-> "none"]

\* SetState returns nil for the host's state value: "exported" when that value
\* is the one the call just before, a GetState, returned.
NoteRestore ==
    ret' = [op |-> "SetState", err |-> NilErr,
            arg |-> IF ret.op = "GetState" THEN "exported" ELSE "held"]

\* The step ends no call.
Quiet == ret' = NoRet

\* case nil: a new empty map.
SetStateNil ==
    /\ Running /\ LockFree
    /\ LET a == FreshAddr(HeldRefs)
       IN /\ stateRef' = a
          /\ heap' = Collect([heap EXCEPT ![a] = EmptyMap], {a} \cup HeldRefs)
    /\ NoteCall("SetState", NilErr)

\* A SetState that takes the type and not the content: a new empty map.
SetStateValueEmpty ==
    /\ Running /\ LockFree
    /\ held.type = "pluginState"
    /\ LET a == FreshAddr(HeldRefs)
       IN /\ stateRef' = a
          /\ heap' = Collect([heap EXCEPT ![a] = EmptyMap], {a} \cup HeldRefs)
    /\ NoteRestore

\* case pluginState: p.state = state, the map of the caller's value.
SetStateValue ==
    /\ Running /\ LockFree
    /\ held.type = "pluginState"
    /\ stateRef' = held.LastTableTimes
    /\ heap' = Collect(heap, HeldRefs)
    /\ NoteRestore

\* A default branch that resets the state before it returns the error.
SetStateInvalidResets(v) ==
    /\ Running /\ LockFree
    /\ LET a == FreshAddr(HeldRefs)
       IN /\ stateRef' = a
          /\ heap' = Collect([heap EXCEPT ![a] = EmptyMap], {a} \cup HeldRefs)
    /\ NoteCall("SetState", [err |-> "invalid state type", type |-> v.type])

\* default: an error, and the state is left alone.
SetStateInvalid(v) ==
    /\ Running /\ LockFree
    /\ UNCHANGED << stateRef, heap >>
    /\ NoteCall("SetState", [err |-> "invalid state type", type |-> v.type])

\* --- Init, plugin.go:59-62

PluginInit ==
    /\ SetStateNil
    /\ inited' = TRUE

\* A GetState that exports a new empty map.
GetStateEmpty ==
    /\ Running /\ LockFree
    /\ LET a == FreshAddr({stateRef})
       IN /\ held' = StateValue(a)
          /\ heap' = Collect([heap EXCEPT ![a] = EmptyMap], {a, stateRef})
    /\ NoteCall("GetState", NilErr)

\* --- GetState, plugin.go:235-242; maps.Clone keeps a nil map nil.

GetState ==
    /\ Running /\ LockFree
    /\ IF stateRef = NilRef
       THEN /\ held' = StateValue(NilRef)
            /\ heap' = Collect(heap, {})
       ELSE LET a == FreshAddr({stateRef})
            IN /\ held' = StateValue(a)
               /\ heap' = Collect([heap EXCEPT ![a] = heap[stateRef]], {a, stateRef})
    /\ NoteCall("GetState", NilErr)

\* --- gatherTable, plugin.go:155-217

\* A query whose Where clause is >= instead of >.
SelectedFromWatermark(rows, t, m) ==
    { x \in 1..Len(rows) :
        MapHas(m, t.Name) => Cell(rows[x], t.Columns.Timestamp) >= m[t.Name] }

\* A query without the Where clause: it selects every row of the table.
SelectedUnfiltered(rows, t, m) == 1..Len(rows)

\* Where(goqu.C(t.Columns.Timestamp).Gt(lastTime)) when the map has an entry for
\* t.Name (plugin.go:164-166): the positions of the rows the query selects.
Selected(rows, t, m) ==
    { x \in 1..Len(rows) :
        MapHas(m, t.Name) => Cell(rows[x], t.Columns.Timestamp) > m[t.Name] }

\* A query without the Order clause: the rows come in any order.
ComesNextAny(rows, t, res, r) == r \in res

\* Order(goqu.C(t.Columns.Timestamp).Asc()), plugin.go:163: r may come next out
\* of the rows still to read. Rows of equal timestamp come in any order.
ComesNext(rows, t, res, r) ==
    /\ r \in res
    /\ \A q \in res : Cell(rows[r], t.Columns.Timestamp) <= Cell(rows[q], t.Columns.Timestamp)

\* The query names only columns the table has, else SQLite rejects it.
Wellformed(t) ==
    /\ t.Name \in AllTables
    /\ t.Columns.Timestamp \in Schema(t.Name)
    /\ \A x \in 1..Len(t.Columns.Tags) : t.Columns.Tags[x] \in Schema(t.Name)
    /\ \A x \in 1..Len(t.Columns.Fields) : t.Columns.Fields[x] \in Schema(t.Name)

\* The tags of a row, plugin.go:179-180,198-201.
RECURSIVE FillTags(_, _, _, _)
FillTags(tags, cols, row, x) ==
    IF x > Len(cols) THEN tags
    ELSE FillTags(MapSet(tags, ToLower(cols[x]), TextOf(Cell(row, cols[x]))), cols, row, x + 1)

\* The fields of a row, plugin.go:181,203-206.
RECURSIVE FillFields(_, _, _, _)
FillFields(fields, cols, row, x) ==
    IF x > Len(cols) THEN fields
    ELSE FillFields(MapSet(fields, ToLower(cols[x]), Cell(row, cols[x])), cols, row, x + 1)

\* The point acc.AddFields receives for a row, plugin.go:208. src is history: the
\* row the point was made from.
Point(dbPath, t, row, x) ==
    [ measurement |-> ToLower(t.Name),
      fields |-> FillFields(EmptyMap, t.Columns.Fields, row, 1),
      tags |-> FillTags(MapSet(EmptyMap, "database_path", dbPath), t.Columns.Tags, row, 1),
      time |-> TimeUnix(Cell(row, t.Columns.Timestamp), 0),
      src |-> <<dbPath, t.Name, x>> ]

\* A loop that emits and does not store the timestamp.
AdvanceNever(m, name, ts) == m

\* A store that keeps no entry but the one it writes.
AdvanceAlone(m, name, ts) == MapSet(EmptyMap, name, ts)

\* p.state.LastTableTimes[t.Name] = ts, plugin.go:209.
Advance(m, name, ts) == MapSet(m, name, ts)

\* An entry of the watermark map as history keeps it: absent, or its value.
Entry(m, k) == IF MapHas(m, k) THEN [has |-> TRUE, val |-> m[k]] ELSE [has |-> FALSE, val |-> 0]

\* fmt.Errorf("failed to open database %q: %w"), ("error at table %q: %w"),
\* ("failed to close database %q: %w"), plugin.go:135,141,146.
ErrOpen(path) == [kind |-> "open", what |-> path]

ErrTable(name) == [kind |-> "table", what |-> name]

ErrClose(path) == [kind |-> "close", what |-> path]

\* A loop that ends at the first source that does not open.
AfterOpenFailStops(i) == Len(DatabasePaths) + 1

\* continue, plugin.go:136: the loop goes on with the source after the one that
\* did not open.
AfterOpenFail(i) == i + 1

CurPath(t) == DatabasePaths[th[t].i]

CurTable(t) == Catalog[th[t].j]

LogLast(f) == [log EXCEPT ![Len(log)] = f]

\* The environment lets at most MaxFails things fail in one cycle.
MayFail(t) == Len(th[t].errs) < MaxFails

Bump(n) == IF n < MaxHanded THEN n + 1 ELSE n

\* --- Gather, plugin.go:126-151

\* Lines 127-130: take the mutex, var errs []error. The host calls Gather only on
\* a plugin it has initialised.
GatherBegin(t) ==
    /\ Running /\ inited
    /\ th[t].pc = "idle"
    /\ Lock(t)
    /\ th' = [th EXCEPT ![t] = [IdleThread EXCEPT !.pc = "source", !.i = 1]]
    /\ sink' = << >>
    /\ log' = << >>
    /\ HistOn("begin", TRUE)
    /\ Quiet
    /\ UNCHANGED << cfgVars, db, heap, stateRef, inited, held, crashed, handed >>

\* Lines 133-137: openDB succeeds.
OpenOk(t) ==
    /\ Running
    /\ th[t].pc = "source"
    /\ th[t].i <= Len(DatabasePaths)
    /\ th' = [th EXCEPT ![t].pc = "table", ![t].j = 1, ![t].conn = CurPath(t)]
    /\ log' = Append(log, [ev |-> "open", i |-> th[t].i, j |-> 0, ok |-> TRUE])
    /\ Quiet
    /\ UNCHANGED << cfgVars, db, heap, stateRef, inited, mu, sink, held, crashed,
                    handed, hist >>

\* Lines 133-137: openDB fails; the source is skipped.
OpenFail(t) ==
    /\ Running
    /\ th[t].pc = "source"
    /\ th[t].i <= Len(DatabasePaths)
    /\ MayFail(t)
    /\ th' = [th EXCEPT ![t].i = AfterOpenFail(@),
                        ![t].errs = Append(@, ErrOpen(CurPath(t)))]
    /\ log' = Append(log, [ev |-> "open", i |-> th[t].i, j |-> 0, ok |-> FALSE])
    /\ Quiet
    /\ UNCHANGED << cfgVars, db, heap, stateRef, inited, mu, sink, held, crashed,
                    handed, hist >>

\* Lines 156-177: the query is built and run, and selects its rows.
QueryOk(t) ==
    /\ Running
    /\ th[t].pc = "table"
    /\ th[t].j <= Len(Catalog)
    /\ Wellformed(CurTable(t))
    /\ LET rows == db[CurPath(t)][CurTable(t).Name]
           sel == Selected(rows, CurTable(t), LiveMap)
       IN /\ th' = [th EXCEPT ![t].pc = "rows", ![t].res = sel]
          /\ log' = Append(log, [ev |-> "scan", i |-> th[t].i, j |-> th[t].j, ok |-> TRUE,
                                 done |-> FALSE, name |-> CurTable(t).Name,
                                 wm0 |-> Entry(LiveMap, CurTable(t).Name),
                                 sel |-> sel, out |-> << >>])
    /\ Quiet
    /\ UNCHANGED << cfgVars, db, heap, stateRef, inited, mu, sink, held, crashed,
                    handed, hist >>

\* Lines 168-176: q.ToSQL or db.Query fails; gatherTable returns the error.
\* They always fail for a query that names an empty or a missing column.
QueryFail(t) ==
    /\ Running
    /\ th[t].pc = "table"
    /\ th[t].j <= Len(Catalog)
    /\ MayFail(t) \/ ~Wellformed(CurTable(t))
    /\ th' = [th EXCEPT ![t].j = @ + 1,
                        ![t].errs = Append(@, ErrTable(CurTable(t).Name))]
    /\ log' = Append(log, [ev |-> "scan", i |-> th[t].i, j |-> th[t].j, ok |-> FALSE,
                           done |-> TRUE, name |-> CurTable(t).Name,
                           wm0 |-> Entry(LiveMap, CurTable(t).Name),
                           sel |-> {}, out |-> << >>])
    /\ Quiet
    /\ UNCHANGED << cfgVars, db, heap, stateRef, inited, mu, sink, held, crashed,
                    handed, hist >>

\* Lines 193-210: r.Next() yields a row, it is scanned, handed to the accumulator,
\* and its timestamp is stored. Storing into a nil map panics: nothing recovers
\* it and the process dies.
NextRow(t, r) ==
    /\ Running
    /\ th[t].pc = "rows"
    /\ LET rows == db[CurPath(t)][CurTable(t).Name]
           tab == CurTable(t)
           pt == Point(CurPath(t), tab, rows[r], r)
       IN /\ ComesNext(rows, tab, th[t].res, r)
          /\ sink' = Append(sink, pt)
          /\ handed' = [handed EXCEPT ![pt.src] = Bump(@)]
          /\ log' = LogLast([log[Len(log)] EXCEPT !.out = Append(@, r)])
          /\ th' = [th EXCEPT ![t].res = @ \ {r}]
          /\ IF stateRef = NilRef
             THEN /\ crashed' = TRUE
                  /\ heap' = heap
                  /\ HistOn("crash", FALSE)
             ELSE /\ crashed' = crashed
                  /\ heap' = [heap EXCEPT ![stateRef] = Advance(@, tab.Name, pt.time.sec)]
                  /\ hist' = hist
    /\ Quiet
    /\ UNCHANGED << cfgVars, db, stateRef, inited, mu, held >>

\* A Gather that returns at a table's error and leaves the connection open.
RowFailLeaves(t) ==
    /\ Running
    /\ th[t].pc = "rows"
    /\ MayFail(t)
    /\ th' = [th EXCEPT ![t].pc = "source", ![t].i = Len(DatabasePaths) + 1, ![t].res = {},
                        ![t].errs = Append(@, ErrTable(CurTable(t).Name))]
    /\ log' = LogLast([log[Len(log)] EXCEPT !.ok = FALSE, !.done = TRUE])
    /\ Quiet
    /\ UNCHANGED << cfgVars, db, heap, stateRef, inited, mu, sink, held, crashed,
                    handed, hist >>

\* Lines 194-196, 212-214: r.Scan fails on the next row, or r.Next() stops on an
\* error; gatherTable returns the error and the rest of the table is not read.
RowFail(t) ==
    /\ Running
    /\ th[t].pc = "rows"
    /\ MayFail(t)
    /\ th' = [th EXCEPT ![t].pc = "table", ![t].j = @ + 1, ![t].res = {},
                        ![t].errs = Append(@, ErrTable(CurTable(t).Name))]
    /\ log' = LogLast([log[Len(log)] EXCEPT !.ok = FALSE, !.done = TRUE])
    /\ Quiet
    /\ UNCHANGED << cfgVars, db, heap, stateRef, inited, mu, sink, held, crashed,
                    handed, hist >>

\* Lines 193, 212-216: the rows are exhausted and r.Err() is nil.
RowsEnd(t) ==
    /\ Running
    /\ th[t].pc = "rows"
    /\ th[t].res = {}
    /\ th' = [th EXCEPT ![t].pc = "table", ![t].j = @ + 1]
    /\ log' = LogLast([log[Len(log)] EXCEPT !.done = TRUE])
    /\ Quiet
    /\ UNCHANGED << cfgVars, db, heap, stateRef, inited, mu, sink, held, crashed,
                    handed, hist >>

\* Lines 145-147: after the last descriptor db.Close() runs, and may fail.
CloseDB(t, ok) ==
    /\ Running
    /\ th[t].pc = "table"
    /\ th[t].j > Len(Catalog)
    /\ ok \/ MayFail(t)
    /\ th' = [th EXCEPT ![t].pc = "source", ![t].i = @ + 1, ![t].j = 0, ![t].conn = "none",
                        ![t].errs = IF ok THEN @ ELSE Append(@, ErrClose(CurPath(t)))]
    /\ log' = Append(log, [ev |-> "close", i |-> th[t].i, j |-> 0, ok |-> ok])
    /\ Quiet
    /\ UNCHANGED << cfgVars, db, heap, stateRef, inited, mu, sink, held, crashed,
                    handed, hist >>

\* Line 150: every source is done; the errors are joined and returned.
GatherJoin(t) ==
    /\ Running
    /\ th[t].pc = "source"
    /\ th[t].i > Len(DatabasePaths)
    /\ th' = [th EXCEPT ![t].pc = "return"]
    /\ NoteCall("Gather", Join(th[t].errs))
    /\ HistOn("join", Len(th[t].errs) = 0)
    /\ UNCHANGED << cfgVars, db, heap, stateRef, inited, mu, sink, held, crashed,
                    handed, log >>

\* Line 128: the deferred Unlock; the caller has the result and the accumulator
\* passes the points on.
GatherReturn(t) ==
    /\ Running
    /\ th[t].pc = "return"
    /\ Unlock(t)
    /\ th' = [th EXCEPT ![t] = IdleThread]
    /\ sink' = << >>
    /\ log' = << >>
    /\ HistOn("return", TRUE)
    /\ Quiet
    /\ UNCHANGED << cfgVars, db, heap, stateRef, inited, held, crashed, handed >>

\* ---------------------------------------------------------------- the host

\* Gadgetbridge appends a row to a table of an exported file. The files are
\* opened immutable (plugin.go:112), so they change only between cycles.
AppendRow(p, n, row) ==
    /\ mu = "free" /\ inited
    /\ \E x \in 1..Len(DatabasePaths) : DatabasePaths[x] = p
    /\ n \in CatalogNames
    /\ RowCount < MaxRows
    /\ db' = [db EXCEPT ![p][n] = Append(@, row)]
    /\ HistOn("append", TRUE)
    /\ Quiet
    /\ UNCHANGED << cfgVars, heap, stateRef, inited, mu, th, sink, held, crashed,
                    handed, log >>

\* The host calls Init on a Plugin value it has made, first of all
\* (plugin_test.go:27-28).
CallInit ==
    /\ ~inited
    /\ PluginInit
    /\ HistOn("init", TRUE)
    /\ UNCHANGED << cfgVars, db, mu, th, sink, held, crashed, handed, log >>

CallGetState ==
    /\ GetState
    /\ HistOn("getstate", TRUE)
    /\ UNCHANGED << cfgVars, db, stateRef, inited, mu, th, sink, crashed, handed, log >>

\* The host calls SetState(nil).
CallSetStateNil ==
    /\ inited
    /\ SetStateNil
    /\ HistOn("setnil", TRUE)
    /\ UNCHANGED << cfgVars, db, inited, mu, th, sink, held, crashed, handed, log >>

\* The host calls SetState with the state value it holds.
CallSetStateValue ==
    /\ inited
    /\ SetStateValue
    /\ HistOn("setvalue", TRUE)
    /\ UNCHANGED << cfgVars, db, inited, mu, th, sink, held, crashed, handed, log >>

\* The host calls SetState with a value of another type.
CallSetStateInvalid(v) ==
    /\ inited
    /\ SetStateInvalid(v)
    /\ UNCHANGED << cfgVars, db, inited, mu, th, sink, held, crashed, histVars >>

\* The host writes into the map of the state value it holds, between its calls,
\* and lets go of the value.
MutateSnapshot(k, v) ==
    /\ Running /\ mu = "free"
    /\ held.type = "pluginState" /\ held.LastTableTimes # NilRef
    /\ MapSet(HeldMap, k, v) # HeldMap
    /\ held' = NoValue
    /\ heap' = Collect([heap EXCEPT ![held.LastTableTimes] = MapSet(@, k, v)], {stateRef})
    /\ HistOn("write", TRUE)
    /\ Quiet
    /\ UNCHANGED << cfgVars, db, stateRef, inited, mu, th, sink, crashed, handed, log >>

\* The host deletes a key of the map of the state value it holds, and lets go of
\* the value.
DeleteSnapshot(k) ==
    /\ Running /\ mu = "free"
    /\ held.type = "pluginState" /\ held.LastTableTimes # NilRef
    /\ MapHas(HeldMap, k)
    /\ held' = NoValue
    /\ heap' = Collect([heap EXCEPT ![held.LastTableTimes] = MapDelete(@, k)], {stateRef})
    /\ HistOn("write", TRUE)
    /\ Quiet
    /\ UNCHANGED << cfgVars, db, stateRef, inited, mu, th, sink, crashed, handed, log >>

\* The process ends (it is stopped between cycles, or it has died) and is started
\* again: a new Plugin value with the same configuration (plugin.go:27). The
\* state value the host persisted outlives the process.
Restart ==
    /\ crashed \/ (mu = "free" /\ inited)
    /\ stateRef' = NilRef
    /\ heap' = Collect(heap, HeldRefs)
    /\ inited' = FALSE
    /\ mu' = "free"
    /\ th' = [t \in Threads |-> IdleThread]
    /\ crashed' = FALSE
    /\ sink' = << >>
    /\ log' = << >>
    /\ HistOn("restart", TRUE)
    /\ Quiet
    /\ UNCHANGED << cfgVars, db, held, handed >>

\* ------------------------------------------------------ the specifications

\* A Plugin value as the host makes it, &Plugin{} with its configuration set
\* (plugin.go:27, plugin_test.go:27): the map is nil until Init.
NewPlugin ==
    /\ db = [p \in Paths |-> [n \in AllTables |-> << >>]]
    /\ heap = [a \in Addrs |-> EmptyMap]
    /\ stateRef = NilRef
    /\ inited = FALSE
    /\ mu = "free"
    /\ th = [t \in Threads |-> IdleThread]
    /\ sink = << >>
    /\ held = NoValue
    /\ ret = NoRet
    /\ crashed = FALSE
    /\ handed = [r \in RowIds |-> 0]
    /\ log = << >>
    /\ hist = HistInit

GatherStep(t) ==
    \/ GatherBegin(t)
    \/ OpenOk(t)
    \/ OpenFail(t)
    \/ QueryOk(t)
    \/ QueryFail(t)
    \/ \E r \in 1..MaxRows : NextRow(t, r)
    \/ RowFail(t)
    \/ RowsEnd(t)
    \/ \E ok \in BOOLEAN : CloseDB(t, ok)
    \/ GatherJoin(t)
    \/ GatherReturn(t)

AppendRows ==
    \E p \in Paths, n \in AllTables : \E row \in RowsFor(n) : AppendRow(p, n, row)

\* Spec: the extraction. One or two sources, the built-in catalog alone or with
\* an extra descriptor; the host initialises the plugin and calls Gather, from
\* one goroutine or two, while rows are appended between the cycles.
Init ==
    /\ DatabasePaths \in PathChoices
    /\ ExtraTables \in ExtraChoices
    /\ ~(Len(DatabasePaths) > 1 /\ ExtraTables = <<ExtraAlt>>)
    /\ NewPlugin

Next ==
    \/ \E t \in Threads : GatherStep(t)
    \/ CallInit
    \/ AppendRows

Spec == Init /\ [][Next]_vars

\* SpecExtras: the extraction with a descriptor of the user's: one source, and
\* the descriptor of the user's table or the descriptor without a timestamp
\* column.
InitExtras ==
    /\ DatabasePaths = <<PathA>>
    /\ ExtraTables \in { <<ExtraTagged>>, <<ExtraEmpty>> }
    /\ NewPlugin

SpecExtras == InitExtras /\ [][Next]_vars

\* SpecHost: the state hooks. One source and the built-in catalog; the host also
\* exports the state, restores it, hands in other values, writes to the value
\* it holds, and restarts the process.
InitHost ==
    /\ DatabasePaths = <<PathA>>
    /\ ExtraTables = << >>
    /\ NewPlugin

NextHost ==
    \/ GatherStep("t1")
    \/ CallInit
    \/ AppendRows
    \/ CallGetState
    \/ CallSetStateNil
    \/ CallSetStateValue
    \/ \E v \in InvalidValues : CallSetStateInvalid(v)
    \/ \E k \in DbTables, v \in 0..MaxTs : MutateSnapshot(k, v)
    \/ \E k \in DbTables : DeleteSnapshot(k)
    \/ Restart

SpecHost == InitHost /\ [][NextHost]_vars

\* SpecConc: the calls side by side. One source and the built-in catalog; two
\* goroutines call Gather while the host exports and sets the state.
NextConc ==
    \/ \E t \in Threads : GatherStep(t)
    \/ CallInit
    \/ AppendRows
    \/ CallGetState
    \/ CallSetStateNil
    \/ CallSetStateValue

SpecConc == InitHost /\ [][NextConc]_vars

\* SpecResume: a host that keeps the watermarks. It restores only a state it
\* exported after the last cycle, restores one after a restart before the next
\* cycle, and never replaces the watermarks by anything else.
InitResume ==
    /\ DatabasePaths = <<PathA>>
    /\ ExtraTables \in ExtraChoices
    /\ NewPlugin

KeepsScope == hist'.scope # "lost"

NextResume ==
    \/ GatherStep("t1") /\ KeepsScope
    \/ CallInit
    \/ AppendRows
    \/ CallGetState
    \/ CallSetStateNil /\ KeepsScope
    \/ CallSetStateValue /\ KeepsScope
    \/ Restart

SpecResume == InitResume /\ [][NextResume]_vars

\* --------------------------------------------------------------- the claims

\* A goroutine has the result of its Gather call and still holds the mutex: the
\* end of a cycle.
AtReturn(t) == th[t].pc = "return"

\* The rows every catalog table of every configured source holds.
CatalogRows ==
    { id \in RowIds :
        /\ \E x \in 1..Len(DatabasePaths) : DatabasePaths[x] = id[1]
        /\ \E c \in 1..Len(Catalog) : Catalog[c].Name = id[2]
        /\ id[3] <= Len(db[id[1]][id[2]]) }

\* What the log of a cycle says.
OpensOf(i) == { x \in DOMAIN log : log[x].ev = "open" /\ log[x].i = i }

ScansOf(i, j) == { x \in DOMAIN log : log[x].ev = "scan" /\ log[x].i = i /\ log[x].j = j }

ClosesOf(i) == { x \in DOMAIN log : log[x].ev = "close" /\ log[x].i = i }

FailedScans == { x \in DOMAIN log : log[x].ev = "scan" /\ ~log[x].ok }

\* The rows the scans of the log handed over, in the order of the log.
RECURSIVE HandedIn(_, _)
HandedIn(lg, x) ==
    IF x > Len(lg) THEN << >>
    ELSE IF lg[x].ev = "scan"
    THEN [y \in 1..Len(lg[x].out) |-> <<DatabasePaths[lg[x].i], lg[x].name, lg[x].out[y]>>]
         \o HandedIn(lg, x + 1)
    ELSE HandedIn(lg, x + 1)

\* The cause Gather records for a failure of the log.
CauseOf(e) ==
    IF e.ev = "open" THEN ErrOpen(DatabasePaths[e.i])
    ELSE IF e.ev = "scan" THEN ErrTable(e.name)
    ELSE ErrClose(DatabasePaths[e.i])

Failed(e) == ~e.ok

FailSeq == SelectSeq(log, Failed)

\* The timestamp of the row a scan of the log handed over last.
LastStamp(e) ==
    Cell(db[DatabasePaths[e.i]][e.name][e.out[Len(e.out)]], Catalog[e.j].Columns.Timestamp)

\* The points of the rows a scan handed over are in the accumulator.
Delivered(e) ==
    \A y \in 1..Len(e.out) :
        \E z \in DOMAIN sink : sink[z].src = <<DatabasePaths[e.i], e.name, e.out[y]>>

\* The watermark of the scan's table is where the scan left it.
LeftAt(e) ==
    IF Len(e.out) >= 1
    THEN Entry(LiveMap, e.name) = [has |-> TRUE, val |-> LastStamp(e)]
    ELSE Entry(LiveMap, e.name) = e.wm0

\* No two descriptors of the catalog read one table by different timestamp
\* columns.
SameStampColumns ==
    \A c \in 1..Len(Catalog), d \in 1..Len(Catalog) :
        Catalog[c].Name = Catalog[d].Name =>
            Catalog[c].Columns.Timestamp = Catalog[d].Columns.Timestamp

\* The second cycle of the resume scenario is at its end.
ResumedCycleEnds == \E t \in Threads : AtReturn(t) /\ hist.phase = "c2"

\* The host writes into the map of the value it holds.
HostWrites ==
    \/ \E k \in DbTables, v \in 0..MaxTs : MutateSnapshot(k, v)
    \/ \E k \in DbTables : DeleteSnapshot(k)

\* C1. No row is skipped: starting from the empty state, with rows only
\* appended, after Gather cycles that all returned no error every row of every
\* catalog table of every source has been handed to the accumulator.
C1_NoRowSkipped ==
    \A t \in Threads :
        (AtReturn(t) /\ hist.scope = "pure") =>
            \A id \in CatalogRows : handed[id] >= 1

\* C2 as stated. At-most-once emission: over the cycles of a host that keeps the
\* watermarks, failing cycles and restarts with the exported state restored
\* included, no row is handed to the accumulator more than once.
C2_AnyCatalog == \A id \in RowIds : handed[id] <= 1

\* C2, amended. At-most-once emission for a catalog whose descriptors of one
\* table name share the timestamp column: over the cycles of a host that keeps
\* the watermarks (failing cycles included, and restarts after which the state
\* exported after the last cycle is restored) no row is handed to the
\* accumulator more than once.
C2_AtMostOnce == SameStampColumns => \A id \in RowIds : handed[id] <= 1

\* After a restart with the state restored, a cycle in which something failed
\* hands over a row, and a row of an earlier cycle stays handed over once.
C2_Witness ==
    \E t \in Threads :
        /\ AtReturn(t)
        /\ SameStampColumns
        /\ hist.restored
        /\ FailSeq # << >>
        /\ \E id \in CatalogRows, od \in CatalogRows :
              /\ handed[id] = 1 /\ handed[od] = 1
              /\ \E z \in DOMAIN sink : sink[z].src = id
              /\ \A z \in DOMAIN sink : sink[z].src # od

\* C3 as stated. Idempotent resume: with the files fixed, a cycle from the empty
\* state, GetState, SetState of that value and a second cycle: the second cycle
\* emits no point and leaves the watermarks equal to the captured ones.
C3_AnyFirstCycle ==
    ResumedCycleEnds => (sink = << >> /\ LiveMap = hist.cap)

\* C3, amended. Idempotent resume after a first cycle that returned no error:
\* the second cycle, on the restored state, emits no point and leaves the
\* watermarks equal to the captured ones.
C3_Resume ==
    (ResumedCycleEnds /\ hist.c1ok) => (sink = << >> /\ LiveMap = hist.cap)

\* The second cycle ends in a new process that restored captured watermarks.
C3_Witness ==
    /\ ResumedCycleEnds
    /\ hist.c1ok
    /\ hist.restored
    /\ hist.cap # EmptyMap

\* C4. Monotonic watermark: the value stored for a table after a cycle,
\* successful or failing, is greater than or equal to the value stored before
\* the cycle, and an entry present before the cycle is still there.
C4_Monotonic ==
    \A t \in Threads :
        AtReturn(t) =>
            \A k \in DOMAIN hist.wmStart :
                MapHas(LiveMap, k) /\ LiveMap[k] >= hist.wmStart[k]

\* A failing cycle that began with an entry and ends with a greater one.
C4_Witness ==
    \E t \in Threads :
        /\ AtReturn(t)
        /\ Len(th[t].errs) > 0
        /\ \E k \in DOMAIN hist.wmStart : MapHas(LiveMap, k) /\ LiveMap[k] > hist.wmStart[k]

\* C5. Snapshots never alias the live state: a write of the host into the map it
\* got from GetState or handed to SetState never changes the plugin's
\* watermarks, and a Gather that advances a watermark never changes the map the
\* host holds.
C5_NoAlias ==
    [][ /\ HostWrites => LiveMap' = LiveMap
        /\ \A t \in Threads, r \in 1..MaxRows : NextRow(t, r) => HeldMap' = HeldMap ]_vars

\* C6. Failure isolation: in one cycle a source that does not open is skipped
\* alone and every later source is still tried; a table that fails loses only
\* its remaining rows and every later descriptor and source is still scanned;
\* the points of what succeeded are in the accumulator in that cycle.
C6_Isolation ==
    \A t \in Threads :
        AtReturn(t) =>
            /\ \A i \in 1..Len(DatabasePaths) :
                 /\ Cardinality(OpensOf(i)) = 1
                 /\ \A x \in OpensOf(i) :
                      IF log[x].ok
                      THEN /\ \A j \in 1..Len(Catalog) :
                                /\ Cardinality(ScansOf(i, j)) = 1
                                /\ \A y \in ScansOf(i, j) : y > x /\ log[y].done
                           /\ Cardinality(ClosesOf(i)) = 1
                      ELSE /\ \A j \in 1..Len(Catalog) : ScansOf(i, j) = {}
                           /\ ClosesOf(i) = {}
            /\ \A x \in DOMAIN log :
                 log[x].ev = "scan" =>
                    /\ { log[x].out[y] : y \in 1..Len(log[x].out) } \subseteq log[x].sel
                    /\ log[x].ok => Len(log[x].out) = Cardinality(log[x].sel)
            /\ [z \in 1..Len(sink) |-> sink[z].src] = HandedIn(log, 1)

\* The first source did not open, a table of the second failed, and a later
\* table of the second handed a row over.
C6_Witness ==
    \E t \in Threads :
        /\ AtReturn(t)
        /\ Len(log) > 1 /\ log[1].ev = "open" /\ ~log[1].ok
        /\ \E x \in FailedScans : \E y \in DOMAIN log :
              y > x /\ log[y].ev = "scan" /\ log[y].ok /\ Len(log[y].out) > 0
        /\ sink # << >>

\* C7. Aggregate error: Gather returns an error if and only if an open, a table
\* or a close failed in the cycle, the error holds one cause per failure, and a
\* cycle without failures returns nil, with or without points.
C7_Aggregate ==
    \A t \in Threads :
        AtReturn(t) =>
            /\ ret.op = "Gather"
            /\ (ret.err.err = "nil") <=> (FailSeq = << >>)
            /\ FailSeq # << >> =>
                 ret.err.causes = [x \in 1..Len(FailSeq) |-> CauseOf(FailSeq[x])]

\* A cycle with two failures of different kinds that also handed a row over.
C7_Witness ==
    \E t \in Threads :
        /\ AtReturn(t)
        /\ Len(FailSeq) = 2
        /\ FailSeq[1].ev # FailSeq[2].ev
        /\ sink # << >>

\* C8 as stated. Per-row progress at the end of the cycle: a table whose scan
\* failed after k rows has, at the end of the cycle, the timestamp of the k-th
\* row as its watermark (k >= 1) or the watermark it had before the scan
\* (k = 0), and the k points are in the accumulator.
C8_AtCycleEnd ==
    \A t \in Threads :
        AtReturn(t) =>
            \A x \in FailedScans : LeftAt(log[x]) /\ Delivered(log[x])

\* C8, amended. Per-row progress when the scan returns: right after a scan failed
\* after k rows, the table's watermark is the timestamp of the k-th row (k >= 1)
\* or what it was before the scan (k = 0); at the end of the cycle the watermark
\* is not less than that timestamp, and the k points are in the accumulator.
C8_Progress ==
    /\ \A x \in FailedScans :
         /\ x = Len(log) => LeftAt(log[x])
         /\ Delivered(log[x])
    /\ \A t \in Threads :
         AtReturn(t) =>
            \A x \in FailedScans :
                Len(log[x].out) >= 1 =>
                    MapHas(LiveMap, log[x].name) /\ LiveMap[log[x].name] >= LastStamp(log[x])

\* A scan has just failed after handing over one of the two rows it selected.
C8_Witness ==
    /\ Len(log) \in FailedScans
    /\ Len(log[Len(log)].out) = 1
    /\ Cardinality(log[Len(log)].sel) = 2

\* C9. Invalid state is rejected without side effect: SetState with a value that
\* is neither nil nor a watermark state returns an error and leaves the
\* watermark map as it was; SetState(nil) returns no error and leaves an empty
\* map.
C9_Rejects ==
    [][ /\ \A v \in InvalidValues :
              CallSetStateInvalid(v) =>
                 /\ ret'.op = "SetState" /\ ret'.err.err # "nil"
                 /\ stateRef' = stateRef /\ heap' = heap
        /\ CallSetStateNil =>
              /\ ret'.op = "SetState" /\ ret'.err.err = "nil"
              /\ stateRef' # NilRef /\ LiveMap' = EmptyMap ]_vars

\* SetState has just refused a value while the plugin holds watermarks.
C9_Witness ==
    /\ ret.op = "SetState"
    /\ ret.err.err = "invalid state type"
    /\ LiveMap # EmptyMap

\* C10. State round trip: SetState with the value GetState has just returned
\* succeeds and leaves the watermark map unchanged.
C10_RoundTrip ==
    [][ (CallSetStateValue /\ ret.op = "GetState") =>
            (ret'.err.err = "nil" /\ LiveMap' = LiveMap) ]_vars

\* SetState has just taken the value exported the step before, with watermarks
\* in it.
C10_Witness ==
    /\ ret.op = "SetState"
    /\ ret.arg = "exported"
    /\ ret.err.err = "nil"
    /\ LiveMap # EmptyMap

\* C11. Emission order: within one cycle the timestamps of the points emitted
\* for a table name never decrease in the order the points reach the
\* accumulator, also across sources and across descriptors of one name.
C11_Ordered ==
    \A y \in DOMAIN sink, z \in DOMAIN sink :
        (y < z /\ sink[y].measurement = sink[z].measurement) =>
            sink[y].time.sec <= sink[z].time.sec

\* One cycle has emitted points of one table name read from two sources.
C11_Witness ==
    \E y \in DOMAIN sink, z \in DOMAIN sink :
        /\ y < z
        /\ sink[y].measurement = sink[z].measurement
        /\ sink[y].src[1] # sink[z].src[1]
        /\ sink[y].time.sec < sink[z].time.sec

\* C12. Source tagging: every point handed to the accumulator carries a
\* database_path tag equal to the path of the source its row was read from,
\* whatever the tag columns of the descriptor are called.
C12_Tagged ==
    \A z \in DOMAIN sink :
        /\ MapHas(sink[z].tags, "database_path")
        /\ sink[z].tags["database_path"] = sink[z].src[1]

\* A cycle is in progress: a goroutine is between the Lock and the Unlock of
\* Gather.
InCycle(t) == th[t].pc # "idle"

NoCycle == \A u \in Threads : ~InCycle(u)

StateCall == CallGetState \/ CallSetStateNil \/ CallSetStateValue

\* C13. Cycles are mutually exclusive: two Gather cycles never run at once (a
\* Gather starts only when no other is in progress), points and watermarks
\* change within a cycle only by the goroutine that holds the mutex, GetState
\* and SetState run only between cycles, and the exported map equals the
\* watermark map at that moment.
C13_Exclusive ==
    [][ /\ \A a \in Threads, b \in Threads : (a # b /\ InCycle(a)') => ~InCycle(b)'
        /\ \A t \in Threads : GatherBegin(t) => NoCycle
        /\ \A t \in Threads :
              (InCycle(t) /\ (sink' # sink \/ LiveMap' # LiveMap)) =>
                 (mu = t /\ \E r \in 1..MaxRows : NextRow(t, r)) \/ GatherReturn(t)
        /\ StateCall => NoCycle
        /\ CallGetState => (NoCycle' /\ HeldMap' = LiveMap /\ LiveMap' = LiveMap) ]_vars

\* A goroutine is reading rows in its cycle, the other is not in a cycle, and
\* the host holds a map exported at an earlier boundary.
C13_Witness ==
    \E t \in Threads :
        /\ th[t].pc = "rows" /\ mu = t
        /\ \A u \in Threads \ {t} : ~InCycle(u)
        /\ held.type = "pluginState"
        /\ HeldMap # EmptyMap
        /\ HeldMap # LiveMap

\* C14. Connections are scoped to one source: at most one connection is open at
\* any moment, it is the connection of the source being read, it is closed
\* before the next source is opened also when tables of the source failed, and
\* none is open when Gather returns.
C14_Scoped ==
    /\ Cardinality({ t \in Threads : th[t].conn # "none" }) <= 1
    /\ \A t \in Threads :
         /\ th[t].pc \in {"idle", "source", "return"} => th[t].conn = "none"
         /\ th[t].pc \in {"table", "rows"} => th[t].conn = CurPath(t)

\* The first source is closed after one of its tables failed, and the second
\* is about to be opened.
C14_Witness ==
    \E t \in Threads :
        /\ th[t].pc = "source" /\ th[t].i = 2 /\ Len(DatabasePaths) = 2
        /\ th[t].conn = "none"
        /\ FailedScans # {}
        /\ log[Len(log)].ev = "close"

\* C15. A descriptor with an empty timestamp column is rejected at
\* configuration time: Init does not succeed on a configuration that holds
\* one, and no cycle runs gatherTable for such a descriptor.
C15_Rejected ==
    /\ inited => \A c \in 1..Len(ExtraTables) : ExtraTables[c].Columns.Timestamp # ""
    /\ \A x \in DOMAIN log :
         log[x].ev = "scan" => Catalog[log[x].j].Columns.Timestamp # ""

\* The scan in progress, and the timestamp of row r of its table.
ScanNow == log[Len(log)]

StampOf(e, r) ==
    Cell(db[DatabasePaths[e.i]][e.name][r], Catalog[e.j].Columns.Timestamp)

\* C16 as stated. Within one scan every advance stores a timestamp strictly
\* greater than the one the advance before it stored and strictly greater than
\* the watermark the scan started from, rows of equal timestamp included.
C16_Strict ==
    [][ \A t \in Threads, r \in 1..MaxRows :
          NextRow(t, r) =>
             /\ Entry(LiveMap', ScanNow.name) = [has |-> TRUE, val |-> StampOf(ScanNow, r)]
             /\ Len(ScanNow.out) >= 1 => LiveMap'[ScanNow.name] > LiveMap[ScanNow.name]
             /\ ScanNow.wm0.has => LiveMap'[ScanNow.name] > ScanNow.wm0.val ]_vars

\* C16, amended. Within one scan every advance stores the timestamp of the row
\* just emitted, which is greater than or equal to the one the advance before
\* it stored (equal exactly when the two rows share a timestamp) and strictly
\* greater than the watermark the scan started from.
C16_NonDecreasing ==
    [][ \A t \in Threads, r \in 1..MaxRows :
          NextRow(t, r) =>
             /\ Entry(LiveMap', ScanNow.name) = [has |-> TRUE, val |-> StampOf(ScanNow, r)]
             /\ Len(ScanNow.out) >= 1 =>
                  /\ LiveMap'[ScanNow.name] >= LiveMap[ScanNow.name]
                  /\ LiveMap[ScanNow.name] = StampOf(ScanNow, ScanNow.out[Len(ScanNow.out)])
             /\ ScanNow.wm0.has => LiveMap'[ScanNow.name] > ScanNow.wm0.val ]_vars

\* A scan that started from a watermark has emitted two rows of one timestamp.
C16_Witness ==
    \E x \in DOMAIN log :
        /\ log[x].ev = "scan"
        /\ Len(log[x].out) = 2
        /\ StampOf(log[x], log[x].out[1]) = StampOf(log[x], log[x].out[2])
        /\ log[x].wm0.has
        /\ x = Len(log) => Entry(LiveMap, log[x].name).val = StampOf(log[x], log[x].out[2])

\* The timestamp column by which the catalog reads a table name first.
StampColumn(name) ==
    Catalog[CHOOSE c \in 1..Len(Catalog) :
                /\ Catalog[c].Name = name
                /\ \A d \in 1..(c - 1) : Catalog[d].Name # name].Columns.Timestamp

\* The timestamps of the given rows of a table of the only source.
Stamps(name, xs) == { Cell(db[DatabasePaths[1]][name][x], StampColumn(name)) : x \in xs }

Greatest(S) == CHOOSE v \in S : \A w \in S : w <= v

\* The rows of a table above the watermark the cycle began with: all of them
\* when the map had no entry for the table.
NewRows(name) ==
    { x \in 1..Len(db[DatabasePaths[1]][name]) :
        MapHas(hist.wmStart, name) => Stamps(name, {x}) = Stamps(name, {x}) \ (0..hist.wmStart[name]) }

\* The cycle picked up exactly the new rows of the table.
PickedUp(name) ==
    LET all == 1..Len(db[DatabasePaths[1]][name])
    IN /\ \A x \in all :
            Cardinality({ z \in DOMAIN sink : sink[z].src = <<DatabasePaths[1], name, x>> })
               = IF x \in NewRows(name) THEN 1 ELSE 0
       /\ \A y \in DOMAIN sink, z \in DOMAIN sink :
            (y < z /\ sink[y].src[2] = name /\ sink[z].src[2] = name) =>
               sink[y].time.sec <= sink[z].time.sec
       /\ NewRows(name) # {} =>
            Entry(LiveMap, name) = [has |-> TRUE, val |-> Greatest(Stamps(name, NewRows(name)))]
       /\ all # {} =>
            Entry(LiveMap, name) = [has |-> TRUE, val |-> Greatest(Stamps(name, all))]

CleanCycleEnds ==
    /\ \E t \in Threads : AtReturn(t)
    /\ FailSeq = << >>
    /\ Len(DatabasePaths) = 1

\* C17 as stated. Incremental pick-up with one source: a cycle without failures
\* leaves each table that has rows at the greatest timestamp of its rows, emits
\* exactly the rows above the watermark it began with (all rows of a table
\* without an entry), one point each in ascending order, and sets the
\* watermark to the greatest of them.
C17_AnyCatalog == CleanCycleEnds => \A name \in CatalogNames : PickedUp(name)

\* C17, amended. The same for a catalog whose descriptors of one table name
\* share the timestamp column.
C17_PickUp ==
    (CleanCycleEnds /\ SameStampColumns) => \A name \in CatalogNames : PickedUp(name)

\* A cycle without failures that began with a watermark for a table ends having
\* emitted the row appended above it and not the row below it.
C17_Witness ==
    /\ CleanCycleEnds
    /\ SameStampColumns
    /\ \E name \in CatalogNames :
          /\ MapHas(hist.wmStart, name)
          /\ NewRows(name) # {}
          /\ NewRows(name) # 1..Len(db[DatabasePaths[1]][name])
          /\ Len(sink) = 1

\* The scans of the log.
Scans == { x \in DOMAIN log : log[x].ev = "scan" }

\* The name of the descriptor at a place of the merged catalog: the built-ins
\* first, then the extras as declared.
NameAt(j) ==
    IF j <= Len(knownTables) THEN knownTables[j].Name
    ELSE ExtraTables[j - Len(knownTables)].Name

\* The place of a source in the configuration.
SourceAt(path) == CHOOSE i \in 1..Len(DatabasePaths) : DatabasePaths[i] = path

\* The scans of a cycle go source by source and, within a source, down the
\* merged catalog; each reads the table its place names.
ScansInOrder ==
    /\ \A x \in Scans, y \in Scans :
          x < y => \/ log[x].i < log[y].i
                   \/ log[x].i = log[y].i /\ log[x].j < log[y].j
    /\ \A x \in Scans : log[x].name = NameAt(log[x].j)
    /\ \A y \in DOMAIN sink, z \in DOMAIN sink :
          y < z => SourceAt(sink[y].src[1]) <= SourceAt(sink[z].src[1])

\* Every descriptor of the merged catalog is scanned exactly once in the source.
ScannedOnce(i) ==
    /\ Len(Catalog) = Len(knownTables) + Len(ExtraTables)
    /\ \A j \in 1..Len(Catalog) : Cardinality(ScansOf(i, j)) = 1

\* Two scans of one table name, with no scan of that name between them, use the
\* one entry of that name: the later starts from what the earlier left.
SharedEntry ==
    \A x \in Scans, y \in Scans :
        ( /\ x < y
          /\ log[x].name = log[y].name
          /\ \A z \in Scans : (x < z /\ z < y) => log[z].name # log[x].name )
        => /\ log[y].wm0 = IF Len(log[x].out) >= 1
                           THEN [has |-> TRUE, val |-> LastStamp(log[x])]
                           ELSE log[x].wm0
           /\ log[y].ok =>
                log[y].sel = Selected(db[DatabasePaths[log[y].i]][log[y].name],
                                      Catalog[log[y].j],
                                      IF log[y].wm0.has
                                      THEN MapSet(EmptyMap, log[y].name, log[y].wm0.val)
                                      ELSE EmptyMap)

\* C18 as stated. In every cycle, for each source in configured order, every
\* descriptor of the merged catalog is scanned exactly once, built-ins first
\* and then the extras as declared; the points of one source reach the sink
\* before those of the next; descriptors of one name are both scanned and both
\* read and advance the one watermark entry of that name.
C18_EverySource ==
    \A t \in Threads : AtReturn(t) =>
        /\ ScansInOrder
        /\ SharedEntry
        /\ \A i \in 1..Len(DatabasePaths) : ScannedOnce(i)

\* C18, amended. The same for each source that opens; a source that does not
\* open is not scanned at all.
C18_OpenedSources ==
    \A t \in Threads : AtReturn(t) =>
        /\ ScansInOrder
        /\ SharedEntry
        /\ \A i \in 1..Len(DatabasePaths) :
              IF \E x \in OpensOf(i) : log[x].ok
              THEN ScannedOnce(i)
              ELSE \A j \in 1..Len(Catalog) : ScansOf(i, j) = {}

\* A cycle ends in which a built-in descriptor and an extra one of the same
\* name were both scanned, the first handed a row over, and the second started
\* from the watermark the first left.
C18_Witness ==
    /\ \E t \in Threads : AtReturn(t)
    /\ \E x \in Scans, y \in Scans :
          /\ log[x].i = log[y].i
          /\ log[x].j <= Len(knownTables)
          /\ log[y].j > Len(knownTables)
          /\ log[x].name = log[y].name
          /\ Len(log[x].out) >= 1
          /\ log[y].wm0 = [has |-> TRUE, val |-> LastStamp(log[x])]
          /\ log[y].ok

\* C19. The watermark mapping is writable whenever a cycle runs: after Init
\* and any GetState calls and SetState calls that returned no error, no cycle
\* stores the timestamp of an emitted row into a nil map.
C19_Writable ==
    /\ ~crashed
    /\ \A t \in Threads : (inited /\ th[t].pc = "rows" /\ th[t].res # {}) => stateRef # NilRef

\* C20. Frame of a table scan: within a cycle the entry of a table name
\* changes only in a step of the scan of the descriptor of that name that
\* hands a row of it to the accumulator, every other entry staying as it was;
\* a name whose scans emitted no row (empty table, nothing above the
\* watermark, or a failure before the first row) ends the cycle with the entry
\* it began with, or with none; a cycle that emits no point leaves the whole
\* map as it was.
C20_Frame ==
    [][ \A t \in Threads : InCycle(t) =>
          /\ \A name \in AllTables :
                Entry(LiveMap', name) # Entry(LiveMap, name) =>
                   /\ th[t].pc = "rows"
                   /\ CurTable(t).Name = name
                   /\ Len(sink') = Len(sink) + 1
                   /\ sink'[Len(sink')].src[2] = name
          /\ AtReturn(t)' =>
                \A name \in AllTables :
                   (\A x \in DOMAIN log' :
                       (log'[x].ev = "scan" /\ log'[x].name = name) => log'[x].out = << >>)
                   => Entry(LiveMap', name) = Entry(hist'.wmStart, name)
          /\ (AtReturn(t)' /\ sink' = << >>) => LiveMap' = hist'.wmStart ]_vars

\* A cycle ends without a point: one scan found nothing above the entry of its
\* table, one scanned a table that has no entry and made none, one failed; the
\* map is the one the cycle began with.
C20_Witness ==
    /\ \E t \in Threads : AtReturn(t)
    /\ sink = << >>
    /\ LiveMap # EmptyMap
    /\ LiveMap = hist.wmStart
    /\ \E x \in Scans : log[x].ok /\ log[x].wm0.has /\ log[x].sel = {}
    /\ \E x \in Scans : log[x].ok /\ ~log[x].wm0.has /\ ~MapHas(LiveMap, log[x].name)
    /\ \E x \in Scans : ~log[x].ok

====
